---- MODULE Spec2Model ----
(***************************************************************************)
(* binstr: a command-line codec between binary-digit strings ('0'/'1', 8   *)
(* digits per byte) and text.  Model of src/src/main.rs.                   *)
(*                                                                         *)
(* Representation.  A byte is a number in 0..255 and a byte buffer         *)
(* (Vec<u8>, &[u8]) a sequence of bytes.  A Rust String / &str is modelled *)
(* by the sequence of its chars (Unicode scalar values); String::len() and *)
(* as_bytes() go through the UTF-8 encoding, read_to_string and from_utf8  *)
(* through the UTF-8 decoding, so that byte length and char count differ   *)
(* for text outside ASCII, as they do in the program.                      *)
(* I/O errors of the operating system (a failing read of stdin, a failing  *)
(* write to stdout) are not modelled.                                      *)
(***************************************************************************)
EXTENDS Integers, Sequences, FiniteSets, TLC

BYTE_SIZE == 8

Byte == 0..255

\* Option::None for a message slot: not a sequence of bytes or of chars.
NoMsg == <<-1>>

\* anyhow::Result / Result values.
Ok(v) == [ok |-> TRUE, val |-> v, kind |-> "none", info |-> <<>>]
Err(k, i) == [ok |-> FALSE, val |-> NoMsg, kind |-> k, info |-> i]
NoError == [kind |-> "none", info |-> <<>>]
ErrorOf(r) == [kind |-> r.kind, info |-> r.info]

(***************************************************************************)
(* u8 arithmetic used by the bit codec.                                    *)
(***************************************************************************)
RECURSIVE Pow2(_)
Pow2(i) == IF i = 0 THEN 1 ELSE 2 * Pow2(i - 1)

\* x << i on u8 (the shifts of the program stay below 8)
Shl(x, i) == (x * Pow2(i)) % 256

RECURSIVE BitOr(_, _)
BitOr(a, b) ==
    IF a = 0 /\ b = 0 THEN 0
    ELSE (IF a % 2 = 1 \/ b % 2 = 1 THEN 1 ELSE 0) + 2 * BitOr(a \div 2, b \div 2)

RECURSIVE BitAnd(_, _)
BitAnd(a, b) ==
    IF a = 0 \/ b = 0 THEN 0
    ELSE (IF a % 2 = 1 /\ b % 2 = 1 THEN 1 ELSE 0) + 2 * BitAnd(a \div 2, b \div 2)

\* bit as u8
BoolAsU8(bit) == IF bit THEN 1 ELSE 0

(***************************************************************************)
(* UTF-8, as std validates, decodes and encodes it.                        *)
(***************************************************************************)
IsCont(b) == b >= 128 /\ b <= 191

\* width of the sequence a first byte announces; 0 for a byte that starts none
Utf8Width(b) ==
    IF b < 128 THEN 1
    ELSE IF b >= 194 /\ b <= 223 THEN 2
    ELSE IF b >= 224 /\ b <= 239 THEN 3
    ELSE IF b >= 240 /\ b <= 244 THEN 4
    ELSE 0

\* the range std allows for the second byte after first byte b
SecondOk(b, c) ==
    IF b = 224 THEN c >= 160 /\ c <= 191
    ELSE IF b = 237 THEN c >= 128 /\ c <= 159
    ELSE IF b = 240 THEN c >= 144 /\ c <= 191
    ELSE IF b = 244 THEN c >= 128 /\ c <= 143
    ELSE IsCont(c)

\* whether a well-formed sequence of Utf8Width(bs[i]) bytes starts at bs[i]
SeqOkAt(bs, i) ==
    LET w == Utf8Width(bs[i]) IN
    /\ w > 0
    /\ i + w - 1 <= Len(bs)
    /\ w >= 2 => SecondOk(bs[i], bs[i + 1])
    /\ w >= 3 => IsCont(bs[i + 2])
    /\ w >= 4 => IsCont(bs[i + 3])

\* the char encoded by the well-formed sequence at bs[i]
CharAt(bs, i) ==
    LET w == Utf8Width(bs[i]) IN
    IF w = 1 THEN bs[i]
    ELSE IF w = 2 THEN (bs[i] - 192) * 64 + (bs[i + 1] - 128)
    ELSE IF w = 3 THEN (bs[i] - 224) * 4096 + (bs[i + 1] - 128) * 64 + (bs[i + 2] - 128)
    ELSE (bs[i] - 240) * 262144 + (bs[i + 1] - 128) * 4096
         + (bs[i + 2] - 128) * 64 + (bs[i + 3] - 128)

\* the concatenation of the sequences ss[lo], .., ss[hi], by halves
RECURSIVE FlattenRange(_, _, _)
FlattenRange(ss, lo, hi) ==
    IF lo > hi THEN <<>>
    ELSE IF lo = hi THEN ss[lo]
    ELSE LET mid == (lo + hi) \div 2
         IN  FlattenRange(ss, lo, mid) \o FlattenRange(ss, mid + 1, hi)

Flatten(ss) == FlattenRange(ss, 1, Len(ss))

\* std::str::from_utf8: Ok(the chars) or Err(Utf8Error) carrying valid_up_to.
\* A scan from the left finds its sequences starting exactly at the bytes
\* that are no continuation bytes, as long as each sequence is well formed
\* and ends where the next one starts; the first one that does not is the error.
Utf8Scan(bs, starts, bad) ==
    IF Len(bs) > 0 /\ IsCont(bs[1]) THEN Err("Utf8Error", <<0>>)
    ELSE IF bad = <<>> THEN Ok([k \in 1..Len(starts) |-> CharAt(bs, starts[k])])
    ELSE LET at == starts[bad[1]]
         IN  IF SeqOkAt(bs, at)
             THEN Err("Utf8Error", <<at - 1 + Utf8Width(bs[at])>>)
             ELSE Err("Utf8Error", <<at - 1>>)

\* the indices k of the sequences that are not well formed or do not end
\* where the next one starts, in order
Utf8Bad(bs, starts) ==
    LET limit(k) == IF k = Len(starts) THEN Len(bs) + 1 ELSE starts[k + 1]
        Good(k) == /\ SeqOkAt(bs, starts[k])
                   /\ starts[k] + Utf8Width(bs[starts[k]]) = limit(k)
        NotGood(k) == ~Good(k)
    IN  SelectSeq([k \in 1..Len(starts) |-> k], NotGood)

Utf8Starts(bs) ==
    LET NotCont(i) == ~IsCont(bs[i])
    IN  SelectSeq([i \in 1..Len(bs) |-> i], NotCont)

Utf8From(bs, starts) == Utf8Scan(bs, starts, Utf8Bad(bs, starts))

from_utf8(bs) == Utf8From(bs, Utf8Starts(bs))

\* char::encode_utf8
EncodeChar(c) ==
    IF c < 128 THEN <<c>>
    ELSE IF c < 2048 THEN <<192 + (c \div 64), 128 + (c % 64)>>
    ELSE IF c < 65536 THEN
        <<224 + (c \div 4096), 128 + ((c \div 64) % 64), 128 + (c % 64)>>
    ELSE <<240 + (c \div 262144), 128 + ((c \div 4096) % 64),
           128 + ((c \div 64) % 64), 128 + (c % 64)>>

\* str::as_bytes: the UTF-8 encoding of the chars, in order
as_bytes(s) == Flatten([k \in 1..Len(s) |-> EncodeChar(s[k])])

\* String::len: the length in bytes
str_len(s) == Len(as_bytes(s))

\* Read::read_to_string on a reader holding bs: the text, or an
\* io::Error of kind InvalidData when the bytes are not UTF-8
read_to_string(bs) ==
    LET r == from_utf8(bs) IN IF r.ok THEN r ELSE Err("InvalidData", <<>>)

(***************************************************************************)
(* Bit codec and bit-stream packer                                         *)
(***************************************************************************)
Char0 == 48
Char1 == 49
CharLF == 10
CharCR == 13

\* src/src/main.rs:30-37.  Both n and r are '\n' as u8 in the source.
RECURSIVE strip_trailing_whitespace(_)
strip_trailing_whitespace(v) ==
    LET n == CharLF
        r == CharLF
    IN  IF v # <<>> /\ (v[Len(v)] = n \/ v[Len(v)] = r)
        THEN strip_trailing_whitespace(SubSeq(v, 1, Len(v) - 1))
        ELSE v

\* src/src/main.rs:96-106: the loop bails at the first char that is neither
\* '1' nor '0'; without one, every char has pushed its bit
str_to_bits(s) ==
    LET other == {k \in 1..Len(s) : s[k] # Char1 /\ s[k] # Char0} IN
    IF other # {}
    THEN Err("InvalidDigit", <<s[CHOOSE k \in other : \A j \in other : k <= j]>>)
    ELSE Ok([k \in 1..Len(s) |-> s[k] = Char1])

\* bits_to_str with the two digits swapped
bits_to_str_swapped(bits) == [k \in 1..Len(bits) |-> IF bits[k] THEN Char0 ELSE Char1]

\* src/src/main.rs:108-112
bits_to_str(bits) == [k \in 1..Len(bits) |-> IF bits[k] THEN Char1 ELSE Char0]

\* bit_slice_to_arrays losing the last chunk
bit_slice_to_arrays_short(slice) ==
    [k \in 1..((Len(slice) \div BYTE_SIZE) - 1) |->
        SubSeq(slice, (k - 1) * BYTE_SIZE + 1, k * BYTE_SIZE)]

\* src/src/main.rs:114-123: chunks_exact drops a remainder shorter than BYTE_SIZE
bit_slice_to_arrays(slice) ==
    [k \in 1..(Len(slice) \div BYTE_SIZE) |->
        SubSeq(slice, (k - 1) * BYTE_SIZE + 1, k * BYTE_SIZE)]

\* src/src/main.rs:125-130: fold over the reversed, enumerated bits
RECURSIVE FoldBits(_, _, _)
FoldBits(rev, i, acc) ==
    IF i >= Len(rev) THEN acc
    ELSE FoldBits(rev, i + 1, BitOr(acc, Shl(BoolAsU8(rev[i + 1]), i)))

\* bits_to_byte without the rev(): index 0 taken as the least significant bit
bits_to_byte_norev(bits) == FoldBits(bits, 0, 0)

bits_to_byte(bits) ==
    LET rev == [k \in 1..Len(bits) |-> bits[Len(bits) + 1 - k]]
    IN  FoldBits(rev, 0, 0)

\* byte_to_bits without the rev(): least significant bit first
byte_to_bits_lsb(byte) ==
    [k \in 1..BYTE_SIZE |-> BitAnd(byte, Shl(1, k - 1)) # 0]

\* src/src/main.rs:132-141: bits_iter is i = 7, 6, .., 0; bits_arr[k] its k-th
byte_to_bits(byte) ==
    [k \in 1..BYTE_SIZE |-> BitAnd(byte, Shl(1, BYTE_SIZE - k)) # 0]

(***************************************************************************)
(* Message types and the conversion layer                                  *)
(***************************************************************************)
\* BinMsg::read converting the digits before it checks the length
BinMsg_read_digits_first(bs) ==
    LET rd == read_to_string(bs) IN
    IF ~rd.ok THEN rd
    ELSE
        LET all_bits == str_to_bits(rd.val) IN
        IF ~all_bits.ok THEN all_bits
        ELSE IF str_len(rd.val) % BYTE_SIZE # 0
        THEN Err("InvalidLength", <<BYTE_SIZE, str_len(rd.val)>>)
        ELSE LET bit_arrs == bit_slice_to_arrays(all_bits.val)
             IN  Ok([k \in 1..Len(bit_arrs) |-> bits_to_byte(bit_arrs[k])])

\* src/src/main.rs:62-83, on a reader holding the bytes bs
BinMsg_read(bs) ==
    LET rd == read_to_string(bs) IN
    IF ~rd.ok THEN rd
    ELSE
        LET strbuf == rd.val
            slen == str_len(strbuf)
        IN  IF slen % BYTE_SIZE # 0 THEN Err("InvalidLength", <<BYTE_SIZE, slen>>)
            ELSE
                LET all_bits == str_to_bits(strbuf) IN
                IF ~all_bits.ok THEN all_bits
                ELSE
                    LET bit_arrs == bit_slice_to_arrays(all_bits.val)
                    IN  Ok([k \in 1..Len(bit_arrs) |-> bits_to_byte(bit_arrs[k])])

\* flat_map of byte_to_bits over the bytes, in order
FlatBits(b) == Flatten([k \in 1..Len(b) |-> byte_to_bits(b[k])])

\* src/src/main.rs:85-93: the bytes write_all hands to the writer
BinMsg_write(b) ==
    LET bits_ == FlatBits(b)
        s == bits_to_str(bits_)
    IN  as_bytes(s)

\* src/src/main.rs:144-148
StrMsg_read(bs) == read_to_string(bs)

\* src/src/main.rs:150-153: the bytes write_all hands to the writer
StrMsg_write(s) == as_bytes(s)

\* a conversion that never fails (as String::from_utf8_lossy): U+FFFD for bad bytes
try_from_lossy(b) ==
    LET r == from_utf8(b) IN IF r.ok THEN r ELSE Ok(<<65533>>)

\* src/src/main.rs:156-163: TryFrom<BinMsg> for StrMsg
try_from(b) == from_utf8(b)

\* a conversion taking one byte per char (c as u8)
from_truncating(s) == [k \in 1..Len(s) |-> s[k] % 256]

\* src/src/main.rs:165-170: From<StrMsg> for BinMsg
from(s) == as_bytes(s)

(***************************************************************************)
(* Inputs                                                                  *)
(***************************************************************************)
\* longest message (in bytes) whose digit string is drawn
MaxBytes == 2
\* longest text (in chars) drawn
MaxChars == 2
\* most bytes an edit of a digit string removes
MaxDel == 2

SeqsUpTo(S, n) == UNION {[1..k -> S] : k \in 0..n}

\* 0x00, 0x01, 0x02, 'a', the two bytes of U+00E9, 0xFF
ByteSample == {0, 1, 2, 97, 195, 169, 255}

\* 'a', '1', '\n', '\r', U+00E9, U+7D42, U+1F602
CharSample == {97, 49, 10, 13, 233, 32066, 128514}

\* the digit of byte b at index k (1..8), by place value: index 1 weighs 128
DigitOf(b, k) == IF (b \div Pow2(BYTE_SIZE - k)) % 2 = 1 THEN Char1 ELSE Char0

\* the digit string of the bytes B, 8 ASCII digits per byte
DigitString(B) ==
    [j \in 1..(BYTE_SIZE * Len(B)) |->
        DigitOf(B[((j - 1) \div BYTE_SIZE) + 1], ((j - 1) % BYTE_SIZE) + 1)]

Messages == {<<b>> : b \in Byte} \cup SeqsUpTo(ByteSample, MaxBytes)

Texts == SeqsUpTo(CharSample, MaxChars)

\* byte sequences that are not UTF-8: a stray continuation or 0xFF, a cut
\* sequence, an overlong form, a surrogate
BadUtf8 == {<<255>>, <<97, 128>>, <<195>>, <<192, 128>>, <<237, 160, 128>>,
            <<48, 49, 48, 49, 48, 49, 48, 255>>}

\* what an edit puts in: nothing, "\n", "\r", "\r\n", " ", "x", U+00E9, "2"
Inserts == {<<>>, <<10>>, <<13>>, <<13, 10>>, <<32>>, <<120>>, <<195, 169>>, <<50>>}

Edit(base, pos, del, ins) ==
    SubSeq(base, 1, pos) \o ins \o SubSeq(base, pos + del + 1, Len(base))

\* digit strings of 0x5A.. with one place cut out and/or overwritten
Edited ==
    LET bases == {DigitString([k \in 1..n |-> 90]) : n \in 0..MaxBytes} IN
    UNION {{Edit(base, pos, del, ins) :
                pos \in 0..Len(base), del \in 0..MaxDel, ins \in Inserts}
           : base \in bases}

Inputs ==
    {DigitString(B) : B \in Messages}
        \cup {as_bytes(S) : S \in Texts} \cup BadUtf8 \cup Edited

(***************************************************************************)
(* State                                                                   *)
(***************************************************************************)
VARIABLES
    opts,    \* Opts: decode, no_trailing_newline, no_strip
    stdin,   \* the bytes standing on stdin when main starts
    pc,      \* position in main / in the codec run
    input,   \* the bytes the reader holds (NoMsg once read to its end)
    bmsg,    \* the BinMsg at hand (its bytes), or NoMsg
    smsg,    \* the StrMsg at hand (its chars), or NoMsg
    stdout,  \* the bytes the writer has received
    err,     \* the error the run ended with, or NoError
    hist,    \* the operations applied so far, in order
    given,   \* the input a run of the library operations started from
    byte,    \* bit codec: the u8 at hand, or -1
    bits     \* bit codec: the [bool; 8] at hand, or <<>>

vars == <<opts, stdin, pc, input, bmsg, smsg, stdout, err, hist, given, byte, bits>>

NoOpts == [decode |-> FALSE, no_trailing_newline |-> FALSE, no_strip |-> FALSE]

(***************************************************************************)
(* main, src/src/main.rs:172-211                                           *)
(***************************************************************************)
Init ==
    /\ opts \in [decode : BOOLEAN, no_trailing_newline : BOOLEAN, no_strip : BOOLEAN]
    /\ stdin \in Inputs
    /\ pc = "main"
    /\ input = NoMsg
    /\ bmsg = NoMsg
    /\ smsg = NoMsg
    /\ stdout = <<>>
    /\ err = NoError
    /\ hist = <<>>
    /\ given = <<>>
    /\ byte = -1
    /\ bits = <<>>

\* src/src/main.rs:39-46: read everything, then strip
try_new(bs) == strip_trailing_whitespace(bs)

\* src/src/main.rs:178-182
make_input(o, bs) == IF o.no_strip THEN bs ELSE try_new(bs)

\* the newline written whatever -n says
trailing_newline_always(o) == <<CharLF>>

\* src/src/main.rs:190-192: what writeln!(stdout, "") adds, if it runs
trailing_newline(o) == IF ~o.no_trailing_newline THEN <<CharLF>> ELSE <<>>

\* src/src/main.rs:178-188: the input is set up and the direction chosen
OpenInput ==
    /\ pc = "main"
    /\ input' = make_input(opts, stdin)
    /\ pc' = IF opts.decode THEN "decode" ELSE "encode"
    /\ UNCHANGED <<opts, stdin, bmsg, smsg, stdout, err, hist, given, byte, bits>>

\* src/src/main.rs:206
DecodeRead ==
    /\ pc = "decode"
    /\ LET r == BinMsg_read(input) IN
        /\ input' = NoMsg
        /\ bmsg' = r.val
        /\ err' = ErrorOf(r)
        /\ pc' = IF r.ok THEN "decode_convert" ELSE "failed"
    /\ UNCHANGED <<opts, stdin, smsg, stdout, hist, given, byte, bits>>

\* src/src/main.rs:207
DecodeConvert ==
    /\ pc = "decode_convert"
    /\ LET r == try_from(bmsg) IN
        /\ bmsg' = NoMsg
        /\ smsg' = r.val
        /\ err' = ErrorOf(r)
        /\ pc' = IF r.ok THEN "decode_write" ELSE "failed"
    /\ UNCHANGED <<opts, stdin, input, stdout, hist, given, byte, bits>>

\* src/src/main.rs:208
DecodeWrite ==
    /\ pc = "decode_write"
    /\ stdout' = stdout \o StrMsg_write(smsg)
    /\ pc' = "newline"
    /\ UNCHANGED <<opts, stdin, input, bmsg, smsg, err, hist, given, byte, bits>>

\* src/src/main.rs:198
EncodeRead ==
    /\ pc = "encode"
    /\ LET r == StrMsg_read(input) IN
        /\ input' = NoMsg
        /\ smsg' = r.val
        /\ err' = ErrorOf(r)
        /\ pc' = IF r.ok THEN "encode_convert" ELSE "failed"
    /\ UNCHANGED <<opts, stdin, bmsg, stdout, hist, given, byte, bits>>

\* src/src/main.rs:199
EncodeConvert ==
    /\ pc = "encode_convert"
    /\ bmsg' = from(smsg)
    /\ smsg' = NoMsg
    /\ pc' = "encode_write"
    /\ UNCHANGED <<opts, stdin, input, stdout, err, hist, given, byte, bits>>

\* src/src/main.rs:200
EncodeWrite ==
    /\ pc = "encode_write"
    /\ stdout' = stdout \o BinMsg_write(bmsg)
    /\ pc' = "newline"
    /\ UNCHANGED <<opts, stdin, input, bmsg, smsg, err, hist, given, byte, bits>>

\* src/src/main.rs:190-194
TrailingNewline ==
    /\ pc = "newline"
    /\ stdout' = stdout \o trailing_newline(opts)
    /\ pc' = "done"
    /\ UNCHANGED <<opts, stdin, input, bmsg, smsg, err, hist, given, byte, bits>>

Next ==
    \/ OpenInput
    \/ DecodeRead
    \/ DecodeConvert
    \/ DecodeWrite
    \/ EncodeRead
    \/ EncodeConvert
    \/ EncodeWrite
    \/ TrailingNewline

Spec == Init /\ [][Next]_vars

(***************************************************************************)
(* The library operations on their own: a reader holding the given bytes,  *)
(* a message slot of each type, a writer.  Each operation is applied at    *)
(* most once in a run, whenever its operand is at hand; a run stops at the *)
(* first error, as the callers' `?` and unwrap do.                         *)
(***************************************************************************)
InitApi ==
    /\ given \in Inputs
    /\ input = given
    /\ pc = "api"
    /\ opts = NoOpts
    /\ stdin = <<>>
    /\ bmsg = NoMsg
    /\ smsg = NoMsg
    /\ stdout = <<>>
    /\ err = NoError
    /\ hist = <<>>
    /\ byte = -1
    /\ bits = <<>>

Applied(op) == \E k \in 1..Len(hist) : hist[k] = op

CanApply(op) == pc = "api" /\ err = NoError /\ ~Applied(op)

\* BinMsg::read(reader), src/src/main.rs:62-83
ApiBinMsgRead ==
    /\ CanApply("BinMsg::read")
    /\ input # NoMsg
    /\ LET r == BinMsg_read(input) IN
        /\ bmsg' = r.val
        /\ err' = ErrorOf(r)
    /\ input' = NoMsg
    /\ hist' = Append(hist, "BinMsg::read")
    /\ UNCHANGED <<opts, stdin, pc, smsg, stdout, given, byte, bits>>

\* msg.write(&mut buf) on a BinMsg, src/src/main.rs:85-93
ApiBinMsgWrite ==
    /\ CanApply("BinMsg::write")
    /\ bmsg # NoMsg
    /\ stdout' = stdout \o BinMsg_write(bmsg)
    /\ hist' = Append(hist, "BinMsg::write")
    /\ UNCHANGED <<opts, stdin, pc, input, bmsg, smsg, err, given, byte, bits>>

\* StrMsg::read(reader), src/src/main.rs:144-148
ApiStrMsgRead ==
    /\ CanApply("StrMsg::read")
    /\ input # NoMsg
    /\ LET r == StrMsg_read(input) IN
        /\ smsg' = r.val
        /\ err' = ErrorOf(r)
    /\ input' = NoMsg
    /\ hist' = Append(hist, "StrMsg::read")
    /\ UNCHANGED <<opts, stdin, pc, bmsg, stdout, given, byte, bits>>

\* msg.write(&mut buf) on a StrMsg, src/src/main.rs:150-153
ApiStrMsgWrite ==
    /\ CanApply("StrMsg::write")
    /\ smsg # NoMsg
    /\ stdout' = stdout \o StrMsg_write(smsg)
    /\ hist' = Append(hist, "StrMsg::write")
    /\ UNCHANGED <<opts, stdin, pc, input, bmsg, smsg, err, given, byte, bits>>

\* bmsg.try_into(), src/src/main.rs:156-163: the BinMsg is moved
ApiTryFrom ==
    /\ CanApply("try_from")
    /\ bmsg # NoMsg
    /\ LET r == try_from(bmsg) IN
        /\ smsg' = r.val
        /\ err' = ErrorOf(r)
    /\ bmsg' = NoMsg
    /\ hist' = Append(hist, "try_from")
    /\ UNCHANGED <<opts, stdin, pc, input, stdout, given, byte, bits>>

\* smsg.into(), src/src/main.rs:165-170: the StrMsg is moved
ApiFrom ==
    /\ CanApply("from")
    /\ smsg # NoMsg
    /\ bmsg' = from(smsg)
    /\ smsg' = NoMsg
    /\ hist' = Append(hist, "from")
    /\ UNCHANGED <<opts, stdin, pc, input, stdout, err, given, byte, bits>>

\* the written bytes are read back (src/src/main.rs:274-276): a new reader
\* over what the writer received, a new empty writer, no message at hand
ApiReadBack ==
    /\ CanApply("read back")
    /\ input = NoMsg
    /\ Applied("BinMsg::write") \/ Applied("StrMsg::write")
    /\ input' = stdout
    /\ stdout' = <<>>
    /\ bmsg' = NoMsg
    /\ smsg' = NoMsg
    /\ hist' = Append(hist, "read back")
    /\ UNCHANGED <<opts, stdin, pc, err, given, byte, bits>>

NextApi ==
    \/ ApiBinMsgRead
    \/ ApiBinMsgWrite
    \/ ApiStrMsgRead
    \/ ApiStrMsgWrite
    \/ ApiTryFrom
    \/ ApiFrom

SpecApi == InitApi /\ [][NextApi]_vars

(***************************************************************************)
(* The same operations from the bytes of a text, with the written bytes    *)
(* read back: what one run wrote is the next reader's content.             *)
(***************************************************************************)
InitPipe ==
    /\ given \in {as_bytes(S) : S \in Texts}
    /\ input = given
    /\ pc = "api"
    /\ opts = NoOpts
    /\ stdin = <<>>
    /\ bmsg = NoMsg
    /\ smsg = NoMsg
    /\ stdout = <<>>
    /\ err = NoError
    /\ hist = <<>>
    /\ byte = -1
    /\ bits = <<>>

NextPipe ==
    \/ ApiBinMsgRead
    \/ ApiBinMsgWrite
    \/ ApiStrMsgRead
    \/ ApiStrMsgWrite
    \/ ApiTryFrom
    \/ ApiFrom
    \/ ApiReadBack

SpecPipe == InitPipe /\ [][NextPipe]_vars

(***************************************************************************)
(* The bit codec on its own: from a byte to its bits and back, and from    *)
(* an array of 8 bits to its byte and back.                                *)
(***************************************************************************)
BitArrays == [1..BYTE_SIZE -> BOOLEAN]

InitCodec ==
    /\ \/ given \in Byte /\ byte = given /\ bits = <<>>
       \/ given \in BitArrays /\ bits = given /\ byte = -1
    /\ pc = "codec"
    /\ hist = <<>>
    /\ opts = NoOpts
    /\ stdin = <<>>
    /\ input = NoMsg
    /\ bmsg = NoMsg
    /\ smsg = NoMsg
    /\ stdout = <<>>
    /\ err = NoError

\* src/src/main.rs:132-141
ByteToBits ==
    /\ pc = "codec"
    /\ byte # -1
    /\ ~Applied("byte_to_bits")
    /\ bits' = byte_to_bits(byte)
    /\ byte' = -1
    /\ hist' = Append(hist, "byte_to_bits")
    /\ UNCHANGED <<opts, stdin, pc, input, bmsg, smsg, stdout, err, given>>

\* src/src/main.rs:125-130
BitsToByte ==
    /\ pc = "codec"
    /\ bits # <<>>
    /\ ~Applied("bits_to_byte")
    /\ byte' = bits_to_byte(bits)
    /\ bits' = <<>>
    /\ hist' = Append(hist, "bits_to_byte")
    /\ UNCHANGED <<opts, stdin, pc, input, bmsg, smsg, stdout, err, given>>

NextCodec ==
    \/ ByteToBits
    \/ BitsToByte

SpecCodec == InitCodec /\ [][NextCodec]_vars

(***************************************************************************)
(* Properties                                                              *)
(***************************************************************************)
IsBinaryDigits(bs) == \A k \in 1..Len(bs) : bs[k] = Char0 \/ bs[k] = Char1

\* a well-formed digit string: only '0'/'1', 8 per byte
WellFormed(bs) == IsBinaryDigits(bs) /\ Len(bs) % BYTE_SIZE = 0

\* the unsigned value of the k-th group of 8 digits, first digit weighing 128
PlaceValue(ds, k) ==
    LET d(j) == ds[BYTE_SIZE * (k - 1) + j] - Char0
    IN  128 * d(1) + 64 * d(2) + 32 * d(3) + 16 * d(4)
        + 8 * d(5) + 4 * d(6) + 2 * d(7) + d(8)

IsWhitespace(c) == c \in {9, 10, 11, 12, 13, 32}

\* the first element of s that is no binary digit
FirstNonBinary(s) ==
    LET other == {k \in 1..Len(s) : s[k] # Char0 /\ s[k] # Char1}
    IN  s[CHOOSE k \in other : \A j \in other : k <= j]

IsPrefix(h, full) == Len(h) <= Len(full) /\ h = SubSeq(full, 1, Len(h))

\* the operations applied so far, the writes left out
Conversions ==
    LET NotWrite(op) == op # "BinMsg::write" /\ op # "StrMsg::write"
    IN  SelectSeq(hist, NotWrite)

\* the bytes main hands to encode or decode
Handed == make_input(opts, stdin)

\* C1: BinMsg::read of the digit string of any bytes B succeeds with exactly
\* the bytes B, and BinMsg::write of that message emits the same digit
\* string again.
C1_ReadWriteRoundTrip ==
    WellFormed(given) =>
        /\ hist = <<"BinMsg::read">> =>
            /\ err = NoError
            /\ bmsg # NoMsg
            /\ DigitString(bmsg) = given
        /\ hist = <<"BinMsg::read", "BinMsg::write">> =>
            /\ err = NoError
            /\ stdout = given

C1_Witness ==
    /\ hist = <<"BinMsg::read", "BinMsg::write">>
    /\ given = DigitString(<<1, 2>>)
    /\ bmsg = <<1, 2>>
    /\ stdout = given

\* C2: on 8*n binary digits BinMsg::read succeeds with exactly n bytes, byte
\* k being the value of digits 8k..8k+7 read most-significant bit first, in
\* the order of the groups.
C2_ReadBytesMsbFirst ==
    (WellFormed(given) /\ hist = <<"BinMsg::read">>) =>
        /\ err = NoError
        /\ bmsg # NoMsg
        /\ Len(bmsg) = Len(given) \div BYTE_SIZE
        /\ \A k \in 1..Len(bmsg) : bmsg[k] = PlaceValue(given, k)

C2_Witness ==
    /\ hist = <<"BinMsg::read">>
    /\ given = <<48, 48, 48, 48, 48, 48, 48, 49, 48, 48, 48, 48, 48, 48, 49, 48>>
    /\ bmsg = <<1, 2>>

\* C3: for a text S, StrMsg(S) converted to a BinMsg and converted back
\* gives Ok(StrMsg(S)), and the BinMsg converted from StrMsg(S) equals the
\* BinMsg read from the digit string of the bytes of S.
C3_ConversionRoundTrip ==
    /\ Conversions = <<"StrMsg::read", "from">> =>
        /\ err = NoError
        /\ BinMsg_read(DigitString(given)).ok
        /\ bmsg = BinMsg_read(DigitString(given)).val
    /\ Conversions = <<"StrMsg::read", "from", "try_from">> =>
        /\ err = NoError
        /\ smsg = StrMsg_read(given).val

C3_Witness ==
    /\ Conversions = <<"StrMsg::read", "from", "try_from">>
    /\ given = <<195, 169, 240, 159, 152, 130>>
    /\ smsg = <<233, 128514>>
    /\ err = NoError

\* encode (StrMsg::read, into, BinMsg::write), then decode (BinMsg::read,
\* try_into, StrMsg::write) on what encode wrote
EncodeThenDecode ==
    <<"StrMsg::read", "from", "BinMsg::write", "read back",
      "BinMsg::read", "try_from", "StrMsg::write">>

\* C4: for a text S, encode on the bytes of S and then decode on the digit
\* string encode wrote never fail and leave exactly the bytes of S on
\* decode's sink.
C4_EncodeDecodeRoundTrip ==
    /\ IsPrefix(hist, EncodeThenDecode) => err = NoError
    /\ hist = EncodeThenDecode => stdout = given

C4_Witness ==
    /\ hist = EncodeThenDecode
    /\ given = <<240, 159, 152, 130, 231, 181, 130>>
    /\ stdout = given

\* C5: unless --no-strip is given, the input handed to the core is the
\* longest prefix of stdin that ends neither in '\n' nor in '\r'.
C5_StripsNewlinesAndReturns ==
    (pc \in {"decode", "encode"} /\ ~opts.no_strip) =>
        LET n == Len(input) IN
        /\ n <= Len(stdin)
        /\ input = SubSeq(stdin, 1, n)
        /\ n > 0 => input[n] # CharLF /\ input[n] # CharCR
        /\ \A k \in (n + 1)..Len(stdin) : stdin[k] = CharLF \/ stdin[k] = CharCR

\* input on which the core has to fail: a byte 0xFF (part of no text); for
\* decode also a length that is no multiple of 8, a byte that is no binary
\* digit, or a group of digits worth 0xFF
MustFail ==
    \/ \E k \in 1..Len(Handed) : Handed[k] = 255
    \/ /\ opts.decode
       /\ \/ Len(Handed) % BYTE_SIZE # 0
          \/ ~IsBinaryDigits(Handed)
          \/ \E k \in 1..(Len(Handed) \div BYTE_SIZE) : PlaceValue(Handed, k) = 255

\* C6: whenever the core fails, main ends in failure with nothing written:
\* no partial output, no newline; output starts only after the whole input
\* was read, parsed and converted.
C6_NoOutputOnFailure ==
    /\ err # NoError => pc = "failed" /\ stdout = <<>>
    /\ pc = "failed" => err # NoError /\ ~ENABLED Next
    /\ stdout # <<>> => pc \in {"newline", "done"}
    /\ MustFail => pc \in {"main", "decode", "encode", "decode_convert",
                           "encode_convert", "failed"}

C6_Witness ==
    /\ pc = "failed"
    /\ opts.decode
    /\ err.kind = "Utf8Error"
    /\ stdout = <<>>

\* what a successful conversion of the handed input writes
IsConverted(body) ==
    IF opts.decode THEN DigitString(body) = Handed ELSE body = DigitString(Handed)

\* C7: a successful run writes exactly the converted output, followed by
\* exactly one '\n' unless -n is given; the writes of the messages add no
\* separator, and the newline comes only after the conversion's write.
C7_OutputThenOneNewline ==
    /\ pc \notin {"newline", "done"} => stdout = <<>>
    /\ pc = "newline" => IsConverted(stdout)
    /\ pc = "done" =>
        LET nl == IF opts.no_trailing_newline THEN <<>> ELSE <<CharLF>>
            n == Len(stdout) - Len(nl)
        IN  /\ n >= 0
            /\ stdout = SubSeq(stdout, 1, n) \o nl
            /\ IsConverted(SubSeq(stdout, 1, n))

C7_Witness ==
    /\ pc = "done"
    /\ opts.decode
    /\ ~opts.no_trailing_newline
    /\ stdout = <<97, 10>>

\* C8: BinMsg::read fails with InvalidLength (8 and the length) on every
\* text whose number of characters is no multiple of 8, and with
\* InvalidDigit naming the first non-binary character on every text of 8*n
\* characters that has one; no BinMsg is produced.
C8_LengthInCharsBeforeDigits ==
    (hist = <<"BinMsg::read">> /\ from_utf8(given).ok) =>
        LET s == from_utf8(given).val
            n == Len(s)
        IN  /\ n % BYTE_SIZE # 0 =>
                /\ err = [kind |-> "InvalidLength", info |-> <<BYTE_SIZE, n>>]
                /\ bmsg = NoMsg
            /\ (n % BYTE_SIZE = 0 /\ ~IsBinaryDigits(s)) =>
                /\ err = [kind |-> "InvalidDigit", info |-> <<FirstNonBinary(s)>>]
                /\ bmsg = NoMsg

\* C9, as stated: BinMsg::read fails with InvalidDigit for the whitespace
\* character on every input that contains one.
C9_WhitespaceIsInvalidDigit ==
    (hist = <<"BinMsg::read">> /\ \E k \in 1..Len(given) : IsWhitespace(given[k])) =>
        /\ err.kind = "InvalidDigit"
        /\ IsWhitespace(err.info[1])

\* C9, amended: BinMsg::read fails on every input that contains a
\* whitespace character and produces no BinMsg: with the reader's
\* InvalidData error when the input is not UTF-8, else with InvalidLength
\* when its length in bytes is no multiple of 8 (a digit string followed by
\* one newline), else with InvalidDigit for its first non-binary character.
C9_WhitespaceIsRejected ==
    (hist = <<"BinMsg::read">> /\ \E k \in 1..Len(given) : IsWhitespace(given[k])) =>
        /\ bmsg = NoMsg
        /\ IF ~from_utf8(given).ok
           THEN err = [kind |-> "InvalidData", info |-> <<>>]
           ELSE IF Len(given) % BYTE_SIZE # 0
           THEN err = [kind |-> "InvalidLength", info |-> <<BYTE_SIZE, Len(given)>>]
           ELSE err = [kind |-> "InvalidDigit",
                       info |-> <<FirstNonBinary(from_utf8(given).val)>>]

C9_Witness ==
    /\ hist = <<"BinMsg::read">>
    /\ given = <<48, 49, 48, 49, 49, 48, 49, 48, 10>>
    /\ err = [kind |-> "InvalidLength", info |-> <<8, 9>>]
    /\ bmsg = NoMsg

\* C10: bits_to_byte(byte_to_bits(b)) = b for every byte b and
\* byte_to_bits(bits_to_byte(a)) = a for every array a of 8 bits, index 0
\* of the array being bit 7 of the byte.
C10_BitCodecInverse ==
    /\ hist = <<"byte_to_bits">> =>
        \A k \in 1..BYTE_SIZE : bits[k] = ((given \div Pow2(BYTE_SIZE - k)) % 2 = 1)
    /\ hist = <<"byte_to_bits", "bits_to_byte">> => byte = given
    /\ hist = <<"bits_to_byte">> =>
        \A k \in 1..BYTE_SIZE : given[k] = ((byte \div Pow2(BYTE_SIZE - k)) % 2 = 1)
    /\ hist = <<"bits_to_byte", "byte_to_bits">> => bits = given

C10_Witness ==
    /\ hist = <<"byte_to_bits", "bits_to_byte">>
    /\ given = 97
    /\ byte = 97

====
